---- MODULE Spec2Model ----
(***************************************************************************)
(* The per-request proxy engine of pkg/proxy/downstream.go: one            *)
(* activeStream bound to successive upstream attempts, its two timers,     *)
(* its retry state and its terminal cleanup.                               *)
(*                                                                         *)
(* Every handler of the source is an operator from a world record          *)
(*   w = [s, p, c, u, t, h]                                                *)
(* to a world record: s is the activeStream struct, p the proxy (stats and *)
(* active set), c the downstream codec stream, u the heap of               *)
(* upstreamRequest objects, t the timer registry and h the observation     *)
(* history.  A Go nil dereference is a panic: it sets h.panicked and every *)
(* later statement of the handler is skipped (each operator starts with    *)
(* the test).  A handler is the composition of its statements, innermost   *)
(* first; where the source branches on a value computed on the way, the    *)
(* rest of the function is an operator of its own.  An action applies one  *)
(* handler to the current world.                                           *)
(***************************************************************************)
EXTENDS Integers, Sequences, FiniteSets, TLC

VARIABLES stream, proxy, codec, upstreams, timers, hist

vars == <<stream, proxy, codec, upstreams, timers, hist>>

(* ------------------------------ bounds --------------------------------- *)
\* streams created one after the other on the connection
MaxStreams == 2
\* retries the retry policy grants a stream
MaxRetries == 1
\* data frames of one downstream request
MaxReqData == 1
\* data frames of one upstream response
MaxRespData == 1

(* ----------------------------- vocabulary ------------------------------ *)
\* a nil pointer to a struct is the empty tuple, a non-nil one <<struct>>
Nil == <<>>
Some(x) == <<x>>
\* a nil object id (upstreamRequest pointer, timer handle)
NoId == 0
\* a nil map / buffer
NULL == "nil"

NoRetry == "NoRetry"
ShouldRetry == "ShouldRetry"
RetryOverflow == "RetryOverflow"
Verdicts == {NoRetry, ShouldRetry, RetryOverflow}

UpstreamReset == "UpstreamReset"
UpstreamGlobalTimeout == "UpstreamGlobalTimeout"
UpstreamPerTryTimeout == "UpstreamPerTryTimeout"

StreamLocalReset == "StreamLocalReset"
StreamConnectionFailed == "StreamConnectionFailed"
StreamRemoteReset == "StreamRemoteReset"
UpstreamReasons == {StreamConnectionFailed, StreamRemoteReset}

RouterUnavailableCode == "RouterUnavailableCode"
NoHealthUpstreamCode == "NoHealthUpstreamCode"
CodecExceptionCode == "CodecExceptionCode"
DeserialExceptionCode == "DeserialExceptionCode"
UnknownCode == "UnknownCode"
TimeoutExceptionCode == "TimeoutExceptionCode"

CodecException == "CodecException"
DeserializeException == "DeserializeException"
OtherException == "OtherException"
DecodeErrors == {CodecException, DeserializeException, OtherException}

NoRouteFound == "NoRouteFound"
NoHealthyUpstream == "NoHealthyUpstream"
UpstreamRequestTimeout == "UpstreamRequestTimeout"
UpstreamOverflow == "UpstreamOverflow"

\* the status code slot of a response the upstream produced
UpstreamStatus == "upstream"

(* --------------------------- the activeStream -------------------------- *)
\* the zero value of the struct
ZeroStream ==
  [ streamId |-> NoId, proxy |-> NULL, route |-> NULL, cluster |-> NULL,
    element |-> NULL, bufferLimit |-> 0, highWatermarkCount |-> 0,
    timeout |-> Nil, retryState |-> Nil,
    requestInfo |-> Nil, responseEncoder |-> NULL,
    upstreamRequest |-> NoId, perRetryTimer |-> NoId, responseTimer |-> NoId,
    downstreamReqHeaders |-> NULL, downstreamReqDataBuf |-> NULL,
    downstreamReqTrailers |-> NULL,
    downstreamRespHeaders |-> NoId, downstreamRespDataBuf |-> NULL,
    downstreamRespTrailers |-> NULL,
    downstreamResponseStarted |-> FALSE, upstreamRequestSent |-> FALSE,
    downstreamRecvDone |-> FALSE, localProcessDone |-> FALSE,
    encoderFiltersStreaming |-> FALSE, decoderFiltersStreaming |-> FALSE,
    filterStage |-> 0, watermarkCallbacks |-> NULL,
    encoderFilters |-> <<>>, decoderFilters |-> <<>>, logger |-> NULL ]

\* activeStream.reset: the fields it assigns, in source order
reset(s) ==
  [ s EXCEPT
    !.streamId = NoId, !.proxy = NULL, !.route = NULL, !.cluster = NULL,
    !.element = NULL, !.bufferLimit = 0, !.highWatermarkCount = 0,
    !.timeout = Nil, !.retryState = Nil, !.requestInfo = Nil,
    !.responseEncoder = NULL, !.upstreamRequest = NoId,
    !.perRetryTimer = NoId, !.responseTimer = NoId,
    !.downstreamRespHeaders = NoId,
    !.downstreamReqDataBuf = NULL, !.downstreamReqTrailers = NULL,
    !.downstreamRespDataBuf = NULL, !.downstreamRespTrailers = NULL,
    !.downstreamResponseStarted = FALSE, !.upstreamRequestSent = FALSE,
    !.downstreamRecvDone = FALSE, !.localProcessDone = FALSE,
    !.encoderFiltersStreaming = FALSE, !.decoderFiltersStreaming = FALSE,
    !.filterStage = 0, !.watermarkCallbacks = NULL,
    !.encoderFilters = <<>>, !.decoderFilters = <<>> ]

\* network.NewRequestInfo
NewRequestInfo == [ responseFlags |-> {}, bytesReceived |-> 0, bytesSent |-> 0 ]

(* ------------------------- observation history ------------------------- *)
\* per stream: what an observer of the stream has seen so far
ZeroHist ==
  [ panicked |-> FALSE,       \* a nil dereference ended the process
    created |-> FALSE,        \* newActiveStream has run
    cleanStreams |-> 0,       \* completions of cleanStream
    terminal |-> FALSE,       \* endStream or OnResetStream was entered
    abandoned |-> {},         \* attempts for which setupRetry returned true
    decodeFilterRuns |-> 0,   \* traversals of the decode filter chain
    requestSentCalls |-> 0,   \* calls of onUpstreamRequestSent
    onDestroys |-> 0,         \* filter OnDestroy rounds
    accessLogs |-> 0,         \* access log rounds
    cleanUps |-> 0,           \* completions of cleanUp
    cleanUpCalls |-> {},      \* what each cleanUp call found: whether
                              \* upstreamRequest and retryState were non-nil
    endStreams |-> <<>>,      \* what each endStream call found and did
    cleanBy |-> <<>>,         \* the callers of cleanStream
    doneCleared |-> FALSE,    \* an encode call set localProcessDone back
    cleanUpEffects |-> 0,     \* cleanUp calls after the first that changed
                              \* the stream, a timer or an upstreamRequest
    \* the last event, the retry policy's answer in it, and what held
    \* when it arrived
    last |-> [ ev |-> "none", policy |-> NoRetry, err |-> "none",
               started |-> FALSE, done |-> FALSE, sent |-> FALSE,
               clean |-> 0, armed |-> {} ] ]

Panic(w) == [w EXCEPT !.h.panicked = TRUE]


(* ------------------------------- timers -------------------------------- *)
\* newTimer(callback, d) followed by start(): the timer is registered under
\* a fresh id; the handle the caller stores is that id (w.t.next afterwards)
startTimer(w, kind) ==
  IF w.h.panicked THEN w
  ELSE [w EXCEPT !.t.next = @ + 1,
                 !.t.reg = @ \cup {[id |-> w.t.next + 1, kind |-> kind,
                                    sid |-> w.s.streamId]}]

\* timer.stop(): a stopped timer never fires; stopping twice is allowed
stopTimer(w, id) == [w EXCEPT !.t.reg = {x \in @ : x.id # id}]

(* --------------------------- upstreamRequest --------------------------- *)
\* &upstreamRequest{activeStream: s, proxy: s.proxy, connPool: pool}
NewUpstreamRequest ==
  [ state |-> "new", requestEncoder |-> NULL, resp |-> "none", nData |-> 0,
    resets |-> 0, liveResets |-> 0, encoded |-> <<>> ]

newUpstreamRequest(w) ==
  IF w.h.panicked THEN w
  ELSE [w EXCEPT !.u = Append(@, NewUpstreamRequest),
                 !.s.upstreamRequest = Len(w.u) + 1]

\* upstreamRequest.encodeHeaders / encodeData / encodeTrailers: the event is
\* written to the pooled upstream encoder; the first one opens the stream
UREncode(w, id, kind, end) ==
  IF w.h.panicked THEN w
  ELSE IF id = NoId THEN Panic(w)
  ELSE [w EXCEPT !.u[id].state = IF @ = "new" THEN "live" ELSE @,
                 !.u[id].requestEncoder =
                     IF w.u[id].state = "new" THEN "encoder" ELSE @,
                 !.u[id].encoded =
                     Append(@, [kind |-> kind, end |-> end])]

\* upstreamRequest.resetStream: resets the upstream stream if it is open;
\* resets counts the calls, liveResets those that find a requestEncoder
URResetStream(w, id) ==
  IF w.h.panicked THEN w
  ELSE IF id = NoId THEN Panic(w)
  ELSE [w EXCEPT !.u[id].resets = @ + 1,
                 !.u[id].liveResets =
                     IF w.u[id].requestEncoder # NULL THEN @ + 1 ELSE @,
                 !.u[id].state = IF @ \in {"new", "live"} THEN "reset" ELSE @]

(* ------------------------------ retryState ----------------------------- *)
\* newRetryState(policy, headers, cluster)
newRetryState(retryOn, retries) ==
  [ retryOn |-> retryOn, retriesRemaining |-> retries, retryTimer |-> NoId ]

\* retryState.reset: stops the pending back-off timer, so that a scheduled
\* doRetry no longer runs
RSReset(w) ==
  IF w.h.panicked THEN w
  ELSE IF w.s.retryState = Nil THEN Panic(w)
  ELSE IF w.s.retryState[1].retryTimer = NoId THEN w
  ELSE [stopTimer(w, w.s.retryState[1].retryTimer)
          EXCEPT !.s.retryState[1].retryTimer = NoId]

\* what the retry policy can answer in the current state
PolicyVerdicts(s) ==
  IF s.retryState # Nil /\ s.retryState[1].retryOn
     /\ s.retryState[1].retriesRemaining > 0
  THEN Verdicts ELSE {NoRetry}

\* retryState.scheduleRetry: one retry of the budget is consumed and the
\* back-off timer that runs doRetry is started
RSSchedule(w) ==
  IF w.h.panicked THEN w
  ELSE [w EXCEPT !.s.retryState[1].retriesRemaining = @ - 1,
                 !.s.retryState[1].retryTimer = w.t.next]

\* retryState.retry(headers, reason, doRetry) answering verdict
RSRetry(w, verdict) ==
  IF verdict = ShouldRetry
  THEN RSSchedule(startTimer(RSReset(w), "retry"))
  ELSE RSReset(w)

(* ------------------------------ requestInfo ---------------------------- *)
SetResponseFlag(w, flag) ==
  IF w.h.panicked THEN w
  ELSE IF w.s.requestInfo = Nil THEN Panic(w)
  ELSE [w EXCEPT !.s.requestInfo[1].responseFlags = @ \cup {flag}]

\* proxy.streamResetReasonToResponseFlag
streamResetReasonToResponseFlag(reason) ==
  CASE reason = StreamConnectionFailed -> "UpstreamConnectionFailure"
    [] reason = StreamRemoteReset -> "UpstreamRemoteReset"
    [] OTHER -> "UpstreamLocalReset"

(* --------------------------- downstream codec -------------------------- *)
\* responseEncoder.EncodeHeaders / EncodeData / EncodeTrailers: the event is
\* what the downstream observes (src is the attempt it comes from, NoId for
\* a hijack reply; ev the handler that produced it; started whether the
\* response had started); a terminal event ends the codec stream
CodecEncode(w, kind, src, code, end) ==
  IF w.h.panicked THEN w
  ELSE IF w.s.responseEncoder = NULL THEN Panic(w)
  ELSE [w EXCEPT !.c.log = Append(@,
                    [kind |-> kind, src |-> src, code |-> code,
                     end |-> end, ev |-> w.h.last.ev,
                     started |-> w.s.downstreamResponseStarted]),
                 !.c.state = IF end /\ @ = "open" THEN "ended" ELSE @]

(* ------------------------------ termination ---------------------------- *)
\* cleanUp that leaves the per-try timer running
stopPerRetryTimer_Skip(w) == w

\* cleanUp that stops the per-try timer and keeps its handle
stopPerRetryTimer_KeepHandle(w) ==
  IF w.h.panicked \/ w.s.perRetryTimer = NoId THEN w
  ELSE stopTimer(w, w.s.perRetryTimer)

\* cleanUp, "reset pertry timer"
stopPerRetryTimer(w) ==
  IF w.h.panicked \/ w.s.perRetryTimer = NoId THEN w
  ELSE [stopTimer(w, w.s.perRetryTimer) EXCEPT !.s.perRetryTimer = NoId]

\* cleanUp that leaves the response timer running
stopResponseTimer_Skip(w) == w

\* cleanUp, "reset response timer"
stopResponseTimer(w) ==
  IF w.h.panicked \/ w.s.responseTimer = NoId THEN w
  ELSE [stopTimer(w, w.s.responseTimer) EXCEPT !.s.responseTimer = NoId]

\* cleanUp that leaves the upstreamRequest its requestEncoder
cleanUpSteps_KeepEncoder(w) ==
  stopResponseTimer(stopPerRetryTimer(RSReset(w)))

\* cleanUp, its four statements
cleanUpSteps(w) ==
  stopResponseTimer(stopPerRetryTimer(RSReset(
    [w EXCEPT !.u[w.s.upstreamRequest].requestEncoder = NULL])))

\* the history notes that cleanUp turned w into r
noteCleanUp(w, r) ==
  IF r.h.panicked THEN r
  ELSE [r EXCEPT !.h.cleanUps = @ + 1,
                 !.h.cleanUpEffects =
                    IF w.h.cleanUps > 0 /\ <<r.s, r.t, r.u>> # <<w.s, w.t, w.u>>
                    THEN @ + 1 ELSE @]

\* the history notes with which pointers cleanUp was called
enterCleanUp(w) ==
  [w EXCEPT !.h.cleanUpCalls = @ \cup
     {[upstreamRequest |-> w.s.upstreamRequest # NoId,
       retryState |-> w.s.retryState # Nil,
       ev |-> w.h.last.ev]}]

\* activeStream.cleanUp
cleanUp(w) ==
  IF w.h.panicked THEN w
  ELSE IF w.s.upstreamRequest = NoId THEN Panic(enterCleanUp(w))
  ELSE noteCleanUp(w, cleanUpSteps(enterCleanUp(w)))

\* proxy.deleteActiveStream: the stream leaves the proxy's active set, which
\* completes cleanStream
deleteActiveStream(w) ==
  IF w.h.panicked THEN w
  ELSE [w EXCEPT !.p.activeStreams = @ \ {w.s.streamId},
                 !.h.cleanStreams = @ + 1]

\* cleanStream that leaves the upstream request running
resetUpstreamStream_Skip(w) == w

\* cleanStream, "reset corresponding upstream stream"
resetUpstreamStream(w) ==
  IF w.h.panicked \/ w.s.upstreamRequest = NoId THEN w
  ELSE URResetStream(w, w.s.upstreamRequest)

\* cleanStream, the filters' OnDestroy and the access logs
destroyAndLog(w) ==
  IF w.h.panicked THEN w
  ELSE [w EXCEPT !.h.onDestroys = @ + 1, !.h.accessLogs = @ + 1]

\* cleanStream that leaves DownstreamRequestActive alone
cleanStream_NoDec(w) ==
  IF w.h.panicked THEN w
  ELSE deleteActiveStream(destroyAndLog(cleanUp(resetUpstreamStream(w))))

\* activeStream.cleanStream
cleanStream(w) ==
  IF w.h.panicked THEN w
  ELSE deleteActiveStream(destroyAndLog(cleanUp(resetUpstreamStream(
         [w EXCEPT !.p.DownstreamRequestActive = @ - 1]))))

\* activeStream.OnResetStream
OnResetStream(w, reason) ==
  IF w.h.panicked THEN w
  ELSE cleanStream([w EXCEPT !.p.DownstreamRequestReset = @ + 1,
                             !.h.terminal = TRUE,
                             !.h.cleanBy = Append(@,
                                [by |-> "OnResetStream",
                                 localDone |-> w.s.localProcessDone])])

\* responseEncoder.GetStream().ResetStream(reason): the codec resets the
\* stream (resetEvs notes the handler that asked for it) and tells its
\* listeners, the activeStream among them
CodecResetStream(w, reason) ==
  IF w.h.panicked THEN w
  ELSE OnResetStream([w EXCEPT !.c.state = "localReset",
                               !.c.resets = @ + 1,
                               !.c.resetEvs = Append(@, w.h.last.ev),
                               !.c.resetReasons = Append(@, reason)],
                     reason)

\* the history notes what endStream found (response encoder present, the
\* two done flags) and the branch it takes
enterEndStream(w, direct) ==
  [w EXCEPT !.h.terminal = TRUE,
            !.h.endStreams = Append(@,
               [encoder |-> w.s.responseEncoder # NULL,
                recvDone |-> w.s.downstreamRecvDone,
                localDone |-> w.s.localProcessDone,
                direct |-> direct, cleanBy |-> Len(w.h.cleanBy),
                resets |-> w.c.resets])]

\* endStream, "if !isReset { s.cleanStream() }"
endStreamClean(w) ==
  IF w.h.panicked THEN w
  ELSE cleanStream([w EXCEPT !.h.cleanBy = Append(@,
                      [by |-> "endStream",
                       localDone |-> w.s.localProcessDone])])

\* endStream that calls cleanStream after the reset as well
endStream_NoShortCircuit(w) ==
  IF w.h.panicked THEN w
  ELSE IF w.s.responseEncoder # NULL
          /\ (~w.s.downstreamRecvDone \/ ~w.s.localProcessDone)
  THEN endStreamClean(
         CodecResetStream([enterEndStream(w, FALSE)
                             EXCEPT !.s.localProcessDone = TRUE],
                          StreamLocalReset))
  ELSE endStreamClean(enterEndStream(w, TRUE))

\* activeStream.endStream
endStream(w) ==
  IF w.h.panicked THEN w
  ELSE IF w.s.responseEncoder # NULL
          /\ (~w.s.downstreamRecvDone \/ ~w.s.localProcessDone)
  THEN CodecResetStream([enterEndStream(w, FALSE)
                           EXCEPT !.s.localProcessDone = TRUE],
                        StreamLocalReset)
  ELSE endStreamClean(enterEndStream(w, TRUE))

\* activeStream.resetStream
resetStream(w) == endStream(w)

(* ------------------------------ encode path ---------------------------- *)
\* encodeHeaderFilters / encodeDataFilters / encodeTrailersFilters with the
\* configured (empty) encoder filter list: no filter stops the traversal
encodeFilters(w) == FALSE

\* "if endStream { s.endStream() }"
endStreamIf(w, end) == IF end THEN endStream(w) ELSE w

\* activeStream.doEncodeHeaders
doEncodeHeaders(w, src, code, end) ==
  IF w.h.panicked \/ encodeFilters(w) THEN w
  ELSE endStreamIf(CodecEncode(w, "headers", src, code, end), end)

\* activeStream.encodeHeaders
encodeHeaders(w, src, code, end) ==
  IF w.h.panicked THEN w
  ELSE doEncodeHeaders(
         [w EXCEPT !.s.localProcessDone = end,
                   !.h.doneCleared = @ \/ (w.s.localProcessDone /\ ~end)],
         src, code, end)

\* requestInfo.SetBytesSent(BytesSent() + data.Len()), a frame counting one
addBytesSent(w) ==
  IF w.h.panicked THEN w
  ELSE IF w.s.requestInfo = Nil THEN Panic(w)
  ELSE [w EXCEPT !.s.requestInfo[1].bytesSent = @ + 1]

\* activeStream.doEncodeData
doEncodeData(w, src, end) ==
  IF w.h.panicked \/ encodeFilters(w) THEN w
  ELSE endStreamIf(
         addBytesSent(CodecEncode(w, "data", src, UpstreamStatus, end)), end)

\* activeStream.encodeData
encodeData(w, src, end) ==
  IF w.h.panicked THEN w
  ELSE doEncodeData(
         [w EXCEPT !.s.localProcessDone = end,
                   !.h.doneCleared = @ \/ (w.s.localProcessDone /\ ~end)],
         src, end)

\* activeStream.doEncodeTrailers
doEncodeTrailers(w, src) ==
  IF w.h.panicked \/ encodeFilters(w) THEN w
  ELSE endStream(CodecEncode(w, "trailers", src, UpstreamStatus, TRUE))

\* activeStream.encodeTrailers
encodeTrailers(w, src) ==
  IF w.h.panicked THEN w
  ELSE doEncodeTrailers([w EXCEPT !.s.localProcessDone = TRUE], src)

\* activeStream.sendHijackReply: the status code is written into the headers
\* and the headers are encoded as the whole response
sendHijackReply(w, code) == encodeHeaders(w, NoId, code, TRUE)

(* ------------------------- request-sent and timers --------------------- *)
\* "s.perRetryTimer = newTimer(...)" after start
setPerRetryTimer(w) ==
  IF w.h.panicked THEN w ELSE [w EXCEPT !.s.perRetryTimer = w.t.next]

\* setupPerTryTimeout that starts the new timer without stopping the old one
setupPerTryTimeout_NoStop(w) ==
  IF w.h.panicked THEN w
  ELSE IF w.s.timeout = Nil THEN Panic(w)
  ELSE IF w.s.timeout[1].TryTimeout > 0
  THEN setPerRetryTimer(startTimer(w, "perTry"))
  ELSE w

\* activeStream.setupPerTryTimeout
setupPerTryTimeout(w) ==
  IF w.h.panicked THEN w
  ELSE IF w.s.timeout = Nil THEN Panic(w)
  ELSE IF w.s.timeout[1].TryTimeout > 0
  THEN setPerRetryTimer(startTimer(
         IF w.s.perRetryTimer # NoId
         THEN stopTimer(w, w.s.perRetryTimer) ELSE w, "perTry"))
  ELSE w

\* "s.responseTimer = newTimer(...)" after start
setResponseTimer(w) ==
  IF w.h.panicked THEN w ELSE [w EXCEPT !.s.responseTimer = w.t.next]

\* onUpstreamRequestSent, "setup global timeout timer"
setupGlobalTimeout(w) ==
  IF w.h.panicked THEN w
  ELSE IF w.s.timeout = Nil THEN Panic(w)
  ELSE IF w.s.timeout[1].GlobalTimeout > 0
  THEN setResponseTimer(startTimer(
         IF w.s.responseTimer # NoId
         THEN stopTimer(w, w.s.responseTimer) ELSE w, "global"))
  ELSE w

\* onUpstreamRequestSent, "if s.upstreamRequest != nil"
setupTimeouts(w) ==
  IF w.h.panicked \/ w.s.upstreamRequest = NoId THEN w
  ELSE setupGlobalTimeout(setupPerTryTimeout(w))

\* activeStream.onUpstreamRequestSent
onUpstreamRequestSent(w) ==
  IF w.h.panicked THEN w
  ELSE setupTimeouts([w EXCEPT !.s.upstreamRequestSent = TRUE,
                               !.h.requestSentCalls = @ + 1])

(* --------------------------- pool acquisition -------------------------- *)
\* activeStream.initializeUpstreamConnectionPool: snapshot and pool say
\* whether the cluster manager returns a cluster snapshot and a pool; the
\* result is the world and whether err is nil
initializeUpstreamConnectionPool(w, snapshot, pool) ==
  IF w.h.panicked THEN [w |-> w, ok |-> FALSE]
  ELSE IF ~snapshot
  THEN [w |-> sendHijackReply(SetResponseFlag(w, NoRouteFound),
                              RouterUnavailableCode),
        ok |-> FALSE]
  ELSE IF ~pool
  THEN [w |-> sendHijackReply(
                SetResponseFlag([w EXCEPT !.s.cluster = "cluster"],
                                NoHealthyUpstream),
                NoHealthUpstreamCode),
        ok |-> FALSE]
  ELSE [w |-> [w EXCEPT !.s.cluster = "cluster"], ok |-> TRUE]

(* ------------------------------- retries ------------------------------- *)
\* setupRetry, "s.upstreamRequest = nil; return true"
releaseUpstreamRequest(w) ==
  IF w.h.panicked THEN [w |-> w, ok |-> FALSE]
  ELSE [w |-> [w EXCEPT !.s.upstreamRequest = NoId,
                        !.h.abandoned = @ \cup {w.s.upstreamRequest}],
        ok |-> TRUE]

\* setupRetry that releases the pointer without resetting the open stream
setupRetry_NoReset(w, end) ==
  IF w.h.panicked \/ ~w.s.upstreamRequestSent THEN [w |-> w, ok |-> FALSE]
  ELSE releaseUpstreamRequest(w)

\* activeStream.setupRetry: the result is the world and the returned bool
setupRetry(w, end) ==
  IF w.h.panicked \/ ~w.s.upstreamRequestSent THEN [w |-> w, ok |-> FALSE]
  ELSE releaseUpstreamRequest(
         IF ~end THEN URResetStream(w, w.s.upstreamRequest) ELSE w)

\* doRetry, the buffered body
retryData(w) ==
  IF w.h.panicked \/ w.s.downstreamReqDataBuf = NULL THEN w
  ELSE UREncode(w, w.s.upstreamRequest, "data",
                w.s.downstreamReqTrailers = NULL)

\* doRetry, the trailers
retryTrailers(w) ==
  IF w.h.panicked \/ w.s.downstreamReqTrailers = NULL THEN w
  ELSE UREncode(w, w.s.upstreamRequest, "trailers", TRUE)

\* doRetry, "if s.upstreamRequest != nil"
retryBody(w) ==
  IF w.h.panicked \/ w.s.upstreamRequest = NoId THEN w
  ELSE setupPerTryTimeout(retryTrailers(retryData(w)))

\* doRetry, the headers of the new upstreamRequest
retryHeaders(w) ==
  IF w.h.panicked THEN w
  ELSE retryBody(UREncode(w, w.s.upstreamRequest, "headers",
                          w.s.downstreamReqDataBuf # NULL
                          /\ w.s.downstreamReqTrailers # NULL))

\* doRetry after initializeUpstreamConnectionPool returned r
retryWithPool(r) ==
  IF ~r.ok
  THEN cleanUp(sendHijackReply(r.w, NoHealthUpstreamCode))
  ELSE retryHeaders(newUpstreamRequest(r.w))

\* activeStream.doRetry
doRetry(w, snapshot, pool) ==
  IF w.h.panicked THEN w
  ELSE IF w.s.cluster = NULL THEN Panic(w)
  ELSE retryWithPool(initializeUpstreamConnectionPool(w, snapshot, pool))

(* ------------------------ upstream event handlers ---------------------- *)
\* activeStream.onUpstreamResponseRecvFinished
onUpstreamResponseRecvFinished(w) ==
  IF w.h.panicked THEN w
  ELSE cleanUp(IF ~w.s.upstreamRequestSent
               THEN URResetStream(w, w.s.upstreamRequest) ELSE w)

\* onUpstreamReset, after cleanUp: reset the started response or reply
resetOrHijack(w, urtype, reason) ==
  IF w.h.panicked THEN w
  ELSE IF w.s.downstreamResponseStarted THEN resetStream(w)
  ELSE IF urtype \in {UpstreamGlobalTimeout, UpstreamPerTryTimeout}
  THEN sendHijackReply(SetResponseFlag(w, UpstreamRequestTimeout),
                       TimeoutExceptionCode)
  ELSE sendHijackReply(
         SetResponseFlag(w, streamResetReasonToResponseFlag(reason)),
         NoHealthUpstreamCode)

\* onUpstreamReset, from "clean up all timers" on
failUpstream(w, urtype, reason) == resetOrHijack(cleanUp(w), urtype, reason)

\* onUpstreamReset, after setupRetry returned r
afterSetupRetry(r, urtype, reason) ==
  IF r.ok THEN r.w ELSE failUpstream(r.w, urtype, reason)

\* onUpstreamReset, after retryState.retry answered verdict
checkRetry(w, urtype, reason, verdict) ==
  IF verdict = ShouldRetry
  THEN afterSetupRetry(setupRetry(w, TRUE), urtype, reason)
  ELSE IF verdict = RetryOverflow
  THEN failUpstream(SetResponseFlag(w, UpstreamOverflow), urtype, reason)
  ELSE failUpstream(w, urtype, reason)

\* activeStream.onUpstreamReset: verdict is what retryState.retry answers
\* when it is asked
onUpstreamReset(w, urtype, reason, verdict) ==
  IF w.h.panicked THEN w
  ELSE IF urtype # UpstreamGlobalTimeout
          /\ w.s.downstreamResponseStarted /\ w.s.retryState # Nil
  THEN checkRetry(RSRetry(w, verdict), urtype, reason, verdict)
  ELSE failUpstream(w, urtype, reason)

\* "if endStream { s.onUpstreamResponseRecvFinished() }"
recvFinishedIf(w, end) ==
  IF end THEN onUpstreamResponseRecvFinished(w) ELSE w

\* onUpstreamHeaders, from "s.downstreamResponseStarted = true" on
startResponse(w, a, end) ==
  IF w.h.panicked THEN w
  ELSE encodeHeaders(
         recvFinishedIf([w EXCEPT !.s.downstreamResponseStarted = TRUE], end),
         a, UpstreamStatus, end)

\* onUpstreamHeaders, after setupRetry returned r
afterHeadersRetry(r, a, end) ==
  IF r.ok THEN r.w ELSE startResponse(RSReset(r.w), a, end)

\* onUpstreamHeaders, after retryState.retry answered verdict
checkHeadersRetry(w, a, end, verdict) ==
  IF verdict = ShouldRetry
  THEN afterHeadersRetry(setupRetry(w, end), a, end)
  ELSE IF verdict = RetryOverflow
  THEN startResponse(RSReset(SetResponseFlag(w, UpstreamOverflow)), a, end)
  ELSE startResponse(RSReset(w), a, end)

\* "s.downstreamRespHeaders = headers", the headers being those of attempt a
setRespHeaders(w, a) == [w EXCEPT !.s.downstreamRespHeaders = a]

\* activeStream.onUpstreamHeaders: the headers are those of attempt a
onUpstreamHeaders(w, a, end, verdict) ==
  IF w.h.panicked THEN w
  ELSE IF w.s.retryState # Nil
  THEN checkHeadersRetry(RSRetry(setRespHeaders(w, a), verdict),
                         a, end, verdict)
  ELSE startResponse(setRespHeaders(w, a), a, end)

\* activeStream.onUpstreamData
onUpstreamData(w, a, end) == encodeData(recvFinishedIf(w, end), a, end)

\* activeStream.onUpstreamTrailers
onUpstreamTrailers(w, a) ==
  encodeTrailers(onUpstreamResponseRecvFinished(w), a)

(* ------------------------------- timeouts ------------------------------ *)
\* activeStream.onResponseTimeout
onResponseTimeout(w) ==
  IF w.h.panicked THEN w
  ELSE IF w.s.cluster = NULL THEN Panic(w)
  ELSE onUpstreamReset(
         resetUpstreamStream([w EXCEPT !.s.responseTimer = NoId]),
         UpstreamGlobalTimeout, StreamLocalReset, NoRetry)

\* activeStream.onPerTryTimeout: verdict is what the retry policy answers to
\* a per-try timeout when it is asked
onPerTryTimeout(w, verdict) ==
  IF w.h.panicked \/ w.s.downstreamResponseStarted THEN w
  ELSE IF w.s.cluster = NULL THEN Panic(w)
  ELSE onUpstreamReset(
         SetResponseFlag(
           URResetStream([w EXCEPT !.s.perRetryTimer = NoId],
                         w.s.upstreamRequest),
           UpstreamRequestTimeout),
         UpstreamPerTryTimeout, StreamLocalReset, verdict)

(* ------------------------------ decode path ---------------------------- *)
\* decodeHeaderFilters / decodeDataFilters / decodeTrailersFilters with the
\* configured (empty) decoder filter list: the traversal is counted and no
\* filter stops it
decodeFilters(w) == [w EXCEPT !.h.decodeFilterRuns = @ + 1]

\* what the router, the cluster manager and the route's policies answer to
\* one request: route found, cluster snapshot found, pool found, the two
\* timeouts, and the retry policy
Environments ==
  { e \in [ route : BOOLEAN, snapshot : BOOLEAN, pool : BOOLEAN,
            TryTimeout : 0..1, GlobalTimeout : 0..1,
            retryOn : BOOLEAN, retries : 0..MaxRetries ] :
      /\ (~e.route => ~e.snapshot)
      /\ (~e.snapshot => ~e.pool)
      /\ (~e.pool => e.TryTimeout = 0 /\ e.GlobalTimeout = 0 /\ ~e.retryOn)
      /\ (e.retryOn <=> e.retries > 0) }

\* doDecodeHeaders, "Build Request" and on
dispatch(w, end) ==
  IF w.h.panicked THEN w
  ELSE IF end
  THEN onUpstreamRequestSent(UREncode(w, w.s.upstreamRequest, "headers", end))
  ELSE UREncode(w, w.s.upstreamRequest, "headers", end)

\* doDecodeHeaders after initializeUpstreamConnectionPool returned r
dispatchWithPool(r, end, e) ==
  IF ~r.ok THEN r.w
  ELSE dispatch(newUpstreamRequest(
         [r.w EXCEPT
            !.s.timeout = Some([TryTimeout |-> e.TryTimeout,
                                GlobalTimeout |-> e.GlobalTimeout]),
            !.s.retryState = Some(newRetryState(e.retryOn, e.retries))]),
         end)

\* doDecodeHeaders after the header filters
routeRequest(w, end, e) ==
  IF ~e.route
  THEN sendHijackReply(SetResponseFlag(w, NoRouteFound),
                       RouterUnavailableCode)
  ELSE dispatchWithPool(
         initializeUpstreamConnectionPool([w EXCEPT !.s.route = "route"],
                                          e.snapshot, e.pool), end, e)

\* activeStream.doDecodeHeaders
doDecodeHeaders(w, end, e) ==
  IF w.h.panicked THEN w ELSE routeRequest(decodeFilters(w), end, e)

\* activeStream.OnDecodeHeaders
OnDecodeHeaders(w, end, e) ==
  doDecodeHeaders([w EXCEPT !.s.downstreamRecvDone = end,
                            !.s.downstreamReqHeaders = "headers"], end, e)

\* doDecodeData, "if shouldBufData": the frame is added to the request buffer
bufferData(w, shouldBufData) ==
  IF w.h.panicked \/ ~shouldBufData THEN w
  ELSE [w EXCEPT !.s.downstreamReqDataBuf = "data"]

\* "if endStream { s.onUpstreamRequestSent() }"
requestSentIf(w, end) == IF end THEN onUpstreamRequestSent(w) ELSE w

\* doDecodeData, "s.upstreamRequest.encodeData"
forwardData(w, end) == UREncode(w, w.s.upstreamRequest, "data", end)

\* doDecodeData without the localProcessDone test
doDecodeData_NoGuard(w, end) ==
  IF w.h.panicked THEN w
  ELSE forwardData(
         bufferData(requestSentIf(decodeFilters(w), end),
                    w.s.retryState # Nil /\ w.s.retryState[1].retryOn),
         end)

\* activeStream.doDecodeData
doDecodeData(w, end) ==
  IF w.h.panicked \/ w.s.localProcessDone THEN w
  ELSE forwardData(
         bufferData(requestSentIf(decodeFilters(w), end),
                    w.s.retryState # Nil /\ w.s.retryState[1].retryOn),
         end)

\* activeStream.OnDecodeData
OnDecodeData(w, end) ==
  IF w.s.requestInfo = Nil THEN Panic(w)
  ELSE doDecodeData([w EXCEPT !.s.requestInfo[1].bytesReceived = @ + 1,
                              !.s.downstreamRecvDone = end], end)

\* doDecodeTrailers, "s.upstreamRequest.encodeTrailers"
forwardTrailers(w) == UREncode(w, w.s.upstreamRequest, "trailers", TRUE)

\* activeStream.doDecodeTrailers
doDecodeTrailers(w) ==
  IF w.h.panicked \/ w.s.localProcessDone THEN w
  ELSE forwardTrailers(onUpstreamRequestSent(
         [decodeFilters(w) EXCEPT !.s.downstreamReqTrailers = "trailers"]))

\* activeStream.OnDecodeTrailers
OnDecodeTrailers(w) ==
  doDecodeTrailers([w EXCEPT !.s.downstreamRecvDone = TRUE])

\* activeStream.OnDecodeError
OnDecodeError(w, err) ==
  sendHijackReply(w, CASE err = CodecException -> CodecExceptionCode
                       [] err = DeserializeException -> DeserialExceptionCode
                       [] OTHER -> UnknownCode)

(* ------------------------------ creation ------------------------------- *)
\* upstreamRequest objects and timer ids nothing refers to any more are
\* garbage: once no attempt is open and no timer is registered, the heap and
\* the id counter start afresh
collect(w) ==
  [w EXCEPT !.u = IF \E a \in 1..Len(@) : @[a].state \in {"new", "live"}
                  THEN @ ELSE <<>>,
            !.t.next = IF w.t.reg = {} THEN 0 ELSE @]

\* newActiveStream, called by the proxy for a new downstream stream; base is
\* the struct taken from activeStreamPool or a fresh one, and the proxy puts
\* the stream into its active set
newActiveStream(w, base) ==
  [collect(w) EXCEPT
     !.s = [base EXCEPT !.streamId = w.p.DownstreamRequestTotal + 1,
                        !.proxy = "proxy",
                        !.requestInfo = Some(NewRequestInfo),
                        !.responseEncoder = "encoder",
                        !.logger = "logger"],
     !.p.DownstreamRequestTotal = @ + 1,
     !.p.DownstreamRequestActive = @ + 1,
     !.p.activeStreams = @ \cup {w.p.DownstreamRequestTotal + 1},
     !.c = [state |-> "open", req |-> "none", nData |-> 0, log |-> <<>>,
            resets |-> 0, resetEvs |-> <<>>, resetReasons |-> <<>>],
     !.h = [ZeroHist EXCEPT !.created = TRUE,
                            !.last.ev = "newActiveStream"]]

(* ------------------------------- the state ----------------------------- *)
World ==
  [s |-> stream, p |-> proxy, c |-> codec, u |-> upstreams, t |-> timers,
   h |-> hist]

\* the world in which a handler starts: the event and what held before it
\* are noted in the history
Begin(ev, policy) ==
  [World EXCEPT !.h.last =
     [ev |-> ev, policy |-> policy, err |-> "none",
      started |-> stream.downstreamResponseStarted,
      done |-> stream.localProcessDone,
      sent |-> stream.upstreamRequestSent,
      clean |-> hist.cleanStreams,
      armed |-> {x.kind : x \in timers.reg}]]

Commit(w) ==
  /\ stream' = w.s
  /\ proxy' = w.p
  /\ codec' = w.c
  /\ upstreams' = w.u
  /\ timers' = w.t
  /\ hist' = w.h

Init ==
  /\ stream = ZeroStream
  /\ proxy = [DownstreamRequestTotal |-> 0, DownstreamRequestActive |-> 0,
              DownstreamRequestReset |-> 0, activeStreams |-> {}]
  /\ codec = [state |-> "none", req |-> "none", nData |-> 0, log |-> <<>>,
              resets |-> 0, resetEvs |-> <<>>, resetReasons |-> <<>>]
  /\ upstreams = <<>>
  /\ timers = [next |-> 0, reg |-> {}, late |-> 0]
  /\ hist = ZeroHist

Running == hist.created /\ ~hist.panicked

(* ------------------------- downstream codec events --------------------- *)
\* a new downstream stream: the previous one, if any, has been cleaned, and
\* its struct may come back from the pool after reset()
NewActiveStream ==
  /\ ~hist.panicked
  /\ proxy.DownstreamRequestTotal < MaxStreams
  /\ hist.created => hist.cleanStreams > 0
  /\ \E base \in {ZeroStream} \cup
                 (IF hist.created THEN {reset(stream)} ELSE {}) :
        Commit(newActiveStream(Begin("newActiveStream", NoRetry), base))

DecodeHeaders ==
  /\ Running
  /\ codec.state = "open" /\ codec.req = "none"
  /\ \E end \in BOOLEAN, e \in Environments :
        LET w == Begin("OnDecodeHeaders", NoRetry)
        IN Commit(OnDecodeHeaders(
             [w EXCEPT !.c.req = IF end THEN "done" ELSE "headers"], end, e))

\* data and trailers still in the connection are delivered after a local
\* reset of the stream as well
DecodeData ==
  /\ Running
  /\ codec.state \in {"open", "localReset"} /\ codec.req = "headers"
  /\ codec.nData < MaxReqData
  /\ \E end \in BOOLEAN :
        LET w == Begin("OnDecodeData", NoRetry)
        IN Commit(OnDecodeData(
             [w EXCEPT !.c.req = IF end THEN "done" ELSE "headers",
                       !.c.nData = @ + 1], end))

DecodeTrailers ==
  /\ Running
  /\ codec.state \in {"open", "localReset"} /\ codec.req = "headers"
  /\ LET w == Begin("OnDecodeTrailers", NoRetry)
     IN Commit(OnDecodeTrailers([w EXCEPT !.c.req = "done"]))

DecodeError ==
  /\ Running
  /\ codec.state = "open" /\ codec.req # "done"
  /\ \E err \in DecodeErrors :
        LET w == Begin("OnDecodeError", NoRetry)
        IN Commit(OnDecodeError([w EXCEPT !.c.req = "done",
                                          !.h.last.err = err], err))

\* the downstream peer resets the stream
DownstreamReset ==
  /\ Running
  /\ codec.state = "open"
  /\ LET w == Begin("OnResetStream", NoRetry)
     IN Commit(OnResetStream([w EXCEPT !.c.state = "remoteReset"],
                             StreamRemoteReset))

(* -------------------------- upstream codec events ---------------------- *)
Live(u) == {a \in 1..Len(u) : u[a].state = "live"}

UpstreamHeaders ==
  /\ Running
  /\ \E a \in Live(upstreams), end \in BOOLEAN,
        verdict \in PolicyVerdicts(stream) :
        /\ upstreams[a].resp = "none"
        /\ LET w == Begin("onUpstreamHeaders", verdict)
           IN Commit(onUpstreamHeaders(
                [w EXCEPT !.u[a].resp = "headers",
                          !.u[a].state = IF end THEN "finished" ELSE @],
                a, end, verdict))

UpstreamData ==
  /\ Running
  /\ \E a \in Live(upstreams), end \in BOOLEAN :
        /\ upstreams[a].resp = "headers"
        /\ upstreams[a].nData < MaxRespData
        /\ LET w == Begin("onUpstreamData", NoRetry)
           IN Commit(onUpstreamData(
                [w EXCEPT !.u[a].nData = @ + 1,
                          !.u[a].state = IF end THEN "finished" ELSE @],
                a, end))

UpstreamTrailers ==
  /\ Running
  /\ \E a \in Live(upstreams) :
        /\ upstreams[a].resp = "headers"
        /\ LET w == Begin("onUpstreamTrailers", NoRetry)
           IN Commit(onUpstreamTrailers(
                [w EXCEPT !.u[a].state = "finished"], a))

\* upstreamRequest.OnResetStream: the upstream connection failed or the
\* upstream peer reset the stream
UpstreamResetEvent ==
  /\ Running
  /\ \E a \in Live(upstreams), reason \in UpstreamReasons,
        verdict \in PolicyVerdicts(stream) :
        LET w == Begin("onUpstreamReset", verdict)
        IN Commit(onUpstreamReset(
             [w EXCEPT !.u[a].state = "reset",
                       !.u[a].requestEncoder = NULL],
             UpstreamReset, reason, verdict))

(* ------------------------------ timer fires ---------------------------- *)
\* a registered timer fires once; a fire for a stream that cleanStream has
\* completed for is counted as late
Fire(w, x) ==
  [w EXCEPT !.t.reg = @ \ {x},
            !.t.late = IF x.sid \in w.p.activeStreams THEN @ ELSE @ + 1]

\* retryState's timer callback: the handle is dropped before doRetry runs
retryTimerFired(w) ==
  IF w.s.retryState = Nil THEN w
  ELSE [w EXCEPT !.s.retryState[1].retryTimer = NoId]

PerTryTimerFires ==
  /\ ~hist.panicked
  /\ \E x \in timers.reg, verdict \in PolicyVerdicts(stream) :
        /\ x.kind = "perTry"
        /\ Commit(onPerTryTimeout(Fire(Begin("onPerTryTimeout", verdict), x),
                                  verdict))

GlobalTimerFires ==
  /\ ~hist.panicked
  /\ \E x \in timers.reg :
        /\ x.kind = "global"
        /\ Commit(onResponseTimeout(
                    Fire(Begin("onResponseTimeout", NoRetry), x)))

\* the back-off of a retry is over: retryState runs the doRetry it was given
RetryTimerFires ==
  /\ ~hist.panicked
  /\ \E x \in timers.reg, snapshot \in BOOLEAN, pool \in BOOLEAN :
        /\ x.kind = "retry"
        /\ (~snapshot => ~pool)
        /\ Commit(doRetry(retryTimerFired(
                            Fire(Begin("doRetry", NoRetry), x)),
                          snapshot, pool))

Next ==
  \/ NewActiveStream
  \/ DecodeHeaders
  \/ DecodeData
  \/ DecodeTrailers
  \/ DecodeError
  \/ DownstreamReset
  \/ UpstreamHeaders
  \/ UpstreamData
  \/ UpstreamTrailers
  \/ UpstreamResetEvent
  \/ PerTryTimerFires
  \/ GlobalTimerFires
  \/ RetryTimerFires

Spec == Init /\ [][Next]_vars


(* ================================ claims =============================== *)
\* the attempts whose upstream stream is open
Open(u) == {a \in 1..Len(u) : u[a].state \in {"new", "live"}}

Registered(kind) == {x \in timers.reg : x.kind = kind}

\* the hijack replies the downstream has received
Hijacks == {i \in 1..Len(codec.log) : codec.log[i].src = NoId}

(* C1: on every terminal path of a stream (endStream or OnResetStream was  *)
(* entered) cleanStream has run to completion exactly once.                *)
C1_CleanStreamExactlyOnce == hist.terminal => hist.cleanStreams = 1

(* C2: once cleanStream has completed for a stream no timer callback of    *)
(* that stream runs: no fire is late, every registered timer belongs to a  *)
(* stream still in the active set, and the cleaned stream holds no timer   *)
(* handle and no scheduled doRetry.                                        *)
C2_NoTimerAfterCleanStream ==
  /\ timers.late = 0
  /\ \A x \in timers.reg : x.sid \in proxy.activeStreams
  /\ hist.cleanStreams > 0 =>
       /\ stream.perRetryTimer = NoId
       /\ stream.responseTimer = NoId
       /\ stream.retryState # Nil => stream.retryState[1].retryTimer = NoId

\* a downstream reset arrived while timers were armed, and cleanStream
\* completed
C2_Witness ==
  /\ hist.last.ev = "OnResetStream"
  /\ {"perTry", "global"} \subseteq hist.last.armed
  /\ hist.cleanStreams = 1

(* C3: once a retry has been set up for an attempt, the downstream holds   *)
(* nothing that attempt produced: it only sees the later attempt.          *)
C3_OnlyLaterAttemptDownstream ==
  \A i \in 1..Len(codec.log) : codec.log[i].src \notin hist.abandoned

(* C4: a stream has at most one open UpstreamRequest, and while a doRetry  *)
(* is scheduled the previous attempt is closed and the upstreamRequest     *)
(* pointer is nil.                                                         *)
C4_AtMostOneLiveUpstreamRequest ==
  /\ Cardinality(Open(upstreams)) <= 1
  /\ Registered("retry") # {} =>
       /\ stream.upstreamRequest = NoId
       /\ Open(upstreams) = {}

\* doRetry has allocated a second attempt after the first was given up
C4_Witness ==
  /\ hist.last.ev = "doRetry"
  /\ hist.abandoned # {}
  /\ stream.upstreamRequest \in Open(upstreams)
  /\ stream.upstreamRequest \notin hist.abandoned

(* C5: an OnDecodeData or OnDecodeTrailers that arrives while              *)
(* localProcessDone is true is dropped: no decode filter runs, no          *)
(* onUpstreamRequestSent is called (no timer is touched) and nothing is    *)
(* encoded to an upstream request.                                         *)
C5_LateDecodeDropped ==
  [][ (stream.localProcessDone
       /\ hist'.last.ev \in {"OnDecodeData", "OnDecodeTrailers"})
      => /\ hist'.decodeFilterRuns = hist.decodeFilterRuns
         /\ hist'.requestSentCalls = hist.requestSentCalls
         /\ stream'.upstreamRequestSent = stream.upstreamRequestSent
         /\ upstreams' = upstreams
         /\ timers' = timers ]_vars

\* a data frame arrived after localProcessDone was set
C5_Witness == hist.last.ev = "OnDecodeData" /\ hist.last.done


\* the handlers that deal with an upstream failure
FailureEvents ==
  {"onUpstreamReset", "onPerTryTimeout", "onResponseTimeout", "doRetry"}

(* C6: an upstream failure (upstream reset, timeout, failed retry pool     *)
(* acquisition) produces a hijack reply only while                         *)
(* downstreamResponseStarted is false.                                     *)
C6_HijackOnlyBeforeResponse ==
  \A i \in Hijacks :
     codec.log[i].ev \in FailureEvents => ~codec.log[i].started

(* C7: when the per-try timer fires before any upstream response and the   *)
(* retry policy answers ShouldRetry, a retry is scheduled and the stream   *)
(* is not ended with a timeout hijack.                                     *)
C7_PerTryTimeoutRetries ==
  (hist.last.ev = "onPerTryTimeout" /\ hist.last.policy = ShouldRetry
   /\ ~hist.last.started)
  => /\ Registered("retry") # {}
     /\ \A i \in Hijacks : codec.log[i].code # TimeoutExceptionCode

(* C8: after onResponseTimeout no retry is scheduled any more, and if the  *)
(* response had not started the downstream has received a hijack with      *)
(* TimeoutExceptionCode and the UpstreamRequestTimeout flag is set.        *)
C8_GlobalTimeoutHijack ==
  hist.last.ev = "onResponseTimeout"
  => /\ Registered("retry") = {}
     /\ ~hist.last.started =>
          /\ \E i \in Hijacks : codec.log[i].code = TimeoutExceptionCode
          /\ UpstreamRequestTimeout \in stream.requestInfo[1].responseFlags

(* C9: an upstream connection failure or reset schedules a retry only if  *)
(* the policy answers ShouldRetry and the response has not started; if the *)
(* response has started no retry is scheduled and the downstream stream is *)
(* reset.                                                                  *)
C9_RetryOnlyBeforeResponse ==
  hist.last.ev = "onUpstreamReset"
  => /\ Registered("retry") # {} =>
          hist.last.policy = ShouldRetry /\ ~hist.last.started
     /\ hist.last.started =>
          Registered("retry") = {} /\ codec.resets > 0

\* the handle h holds a registered timer of the kind
Armed(h, kind) == \E x \in timers.reg : x.id = h /\ x.kind = kind

(* C10: whenever onUpstreamRequestSent has set upstreamRequestSent the     *)
(* per-try timer is armed iff TryTimeout > 0 and the global timer iff      *)
(* GlobalTimeout > 0, and at every time at most one timer of each kind is  *)
(* registered (an armed timer is stopped before its successor is started). *)
C10_TimersArmedOnRequestSent ==
  [][ /\ (hist'.requestSentCalls > hist.requestSentCalls)
         => /\ Armed(stream.perRetryTimer, "perTry")'
                 <=> stream'.timeout[1].TryTimeout > 0
            /\ Armed(stream.responseTimer, "global")'
                 <=> stream'.timeout[1].GlobalTimeout > 0
      /\ \A kind \in {"perTry", "global"} :
            Cardinality(Registered(kind))' <= 1 ]_vars

\* doRetry ran while the per-try timer of the previous attempt was armed,
\* and one per-try timer and one global timer are armed after it
C10_Witness ==
  /\ hist.last.ev = "doRetry"
  /\ hist.requestSentCalls > 0
  /\ "perTry" \in hist.last.armed
  /\ stream.upstreamRequestSent
  /\ Armed(stream.perRetryTimer, "perTry")
  /\ Armed(stream.responseTimer, "global")

(* C11: DownstreamRequestTotal and DownstreamRequestActive are incremented *)
(* by one when a stream is created and at no other time;                   *)
(* DownstreamRequestActive is decremented by one in the step in which the  *)
(* stream terminates and at no other time, is never negative, and equals   *)
(* the number of streams that have not terminated (the size of the proxy's *)
(* active set, unless cleanStream was cut short by a panic).               *)
C11_RequestCounters ==
  [][ /\ proxy'.DownstreamRequestTotal = proxy.DownstreamRequestTotal
           + (IF hist'.last.ev = "newActiveStream" THEN 1 ELSE 0)
      /\ proxy'.DownstreamRequestActive = proxy.DownstreamRequestActive
           + (IF hist'.last.ev = "newActiveStream" THEN 1
              ELSE IF ~hist.terminal /\ hist'.terminal THEN 0 - 1 ELSE 0)
      /\ proxy'.DownstreamRequestActive >= 0
      /\ proxy'.DownstreamRequestActive
           = (IF hist'.created /\ ~hist'.terminal THEN 1 ELSE 0)
      /\ ~hist'.panicked =>
           proxy'.DownstreamRequestActive = Cardinality(proxy'.activeStreams)
    ]_vars

\* the second stream of the connection has terminated: two streams were
\* counted and none is active
C11_Witness ==
  /\ hist.terminal /\ hist.cleanStreams = 1
  /\ proxy.DownstreamRequestTotal = 2
  /\ proxy.DownstreamRequestActive = 0

\* cleanUp turned w into r without an error and without touching the stream,
\* the timers or the upstreamRequests
NoEffect(w, r) ==
  ~r.h.panicked /\ r.s = w.s /\ r.t = w.t /\ r.u = w.u

(* C12: once cleanUp has run for a stream, every further cleanUp - the     *)
(* ones the handlers made and one made in any state reached afterwards -   *)
(* changes nothing and raises no error: both timer handles and the retry   *)
(* timer are nil after the first and stay nil.                             *)
C12_CleanUpIdempotent ==
  hist.cleanUps > 0 =>
    /\ ~hist.panicked
    /\ hist.cleanUpEffects = 0
    /\ stream.perRetryTimer = NoId /\ stream.responseTimer = NoId
    /\ stream.retryState # Nil /\ stream.retryState[1].retryTimer = NoId
    /\ NoEffect(World, cleanUp(World))

\* a handler that found both timers armed has called cleanUp twice
C12_Witness ==
  /\ hist.cleanUps >= 2
  /\ {"perTry", "global"} \subseteq hist.last.armed
  /\ timers.reg = {}

TimeoutEvents == {"onPerTryTimeout", "onResponseTimeout"}

\* the terminal actions the timeout handlers have caused on the downstream
\* stream: hijack replies and resets
TimeoutHijacks ==
  {i \in Hijacks : codec.log[i].ev \in TimeoutEvents}

TimeoutResets ==
  {i \in 1..Len(codec.resetEvs) : codec.resetEvs[i] \in TimeoutEvents}

(* C13: in every interleaving of the per-try and the global timer of a     *)
(* stream the timeout handlers together cause at most one terminal action  *)
(* (one hijack reply or one downstream reset), and once one has handled    *)
(* the timeout the other timer is stopped and its handle nil.              *)
C13_OneTimeoutAction ==
  /\ Cardinality(TimeoutHijacks) + Cardinality(TimeoutResets) <= 1
  /\ Cardinality(TimeoutHijacks) + Cardinality(TimeoutResets) = 1 =>
        /\ Registered("perTry") = {} /\ Registered("global") = {}
        /\ stream.perRetryTimer = NoId /\ stream.responseTimer = NoId

\* both timers were armed when one of them fired, and its handler sent the
\* timeout reply or reset the downstream stream
C13_Witness ==
  /\ hist.last.ev \in TimeoutEvents
  /\ {"perTry", "global"} \subseteq hist.last.armed
  /\ Cardinality(TimeoutHijacks) + Cardinality(TimeoutResets) = 1
  /\ ~hist.panicked

\* the stream built nothing for an upstream attempt: no pool was acquired,
\* no timeout, retry state or upstreamRequest exists, no timer is armed
NothingBuilt ==
  /\ stream.timeout = Nil /\ stream.retryState = Nil
  /\ stream.upstreamRequest = NoId /\ upstreams = <<>>
  /\ stream.perRetryTimer = NoId /\ stream.responseTimer = NoId
  /\ timers.reg = {}

\* the downstream has received exactly one event, a hijack reply with code
OneHijack(code) ==
  /\ Len(codec.log) = 1
  /\ codec.log[1].src = NoId /\ codec.log[1].code = code
  /\ codec.log[1].kind = "headers" /\ codec.log[1].end

(* C14: after OnDecodeHeaders found no route the NoRouteFound flag is set, *)
(* the downstream has received one hijack reply with RouterUnavailableCode,*)
(* the stream has terminated (cleanStream completed), and no pool was      *)
(* acquired, no upstreamRequest created and no timer armed.                *)
C14_NoRouteHijack ==
  (hist.last.ev = "OnDecodeHeaders" /\ stream.route = NULL) =>
    /\ NoRouteFound \in stream.requestInfo[1].responseFlags
    /\ OneHijack(RouterUnavailableCode)
    /\ stream.cluster = NULL /\ NothingBuilt
    /\ hist.cleanStreams = 1 /\ ~hist.panicked

\* C14 without the termination: what holds after the no-route reply
C14_ReplyOnly ==
  (hist.last.ev = "OnDecodeHeaders" /\ stream.route = NULL) =>
    /\ NoRouteFound \in stream.requestInfo[1].responseFlags
    /\ OneHijack(RouterUnavailableCode)
    /\ stream.cluster = NULL /\ NothingBuilt

\* the hijack status OnDecodeError is to answer an error with
ErrorCode(err) ==
  CASE err = CodecException -> CodecExceptionCode
    [] err = DeserializeException -> DeserialExceptionCode
    [] OTHER -> UnknownCode

\* an OnDecodeError step: the downstream receives one more event, the hijack
\* reply for the error, and route, cluster and upstreamRequests are untouched
ErrorReplied ==
  /\ Len(codec'.log) = Len(codec.log) + 1
  /\ codec'.log[Len(codec'.log)].src = NoId
  /\ codec'.log[Len(codec'.log)].code = ErrorCode(hist'.last.err)
  /\ stream'.route = stream.route /\ stream'.cluster = stream.cluster
  /\ stream'.upstreamRequest = stream.upstreamRequest
  /\ Len(upstreams') = Len(upstreams)

(* C15: OnDecodeError answers the error with the hijack status of its      *)
(* kind, performs no route lookup, pool acquisition or upstreamRequest     *)
(* creation, and cleanStream has completed exactly once when it returns.   *)
C15_DecodeErrorHijack ==
  [][ hist'.last.ev = "OnDecodeError" =>
        ErrorReplied /\ hist'.cleanStreams = 1 /\ ~hist'.panicked ]_vars

\* C15 without the termination: the reply and what OnDecodeError leaves alone
C15_ReplyOnly ==
  [][ hist'.last.ev = "OnDecodeError" => ErrorReplied ]_vars

(* C16, as stated: the active stream invokes resetStream of any one        *)
(* upstreamRequest at most once (across per-try timeout, global timeout,   *)
(* early-finished response, setupRetry and cleanStream).                   *)
C16_ResetStreamAtMostOnce ==
  \A a \in 1..Len(upstreams) : upstreams[a].resets <= 1

(* C16, amended: resetStream of one upstreamRequest is invoked at most     *)
(* twice, and at most one of the invocations finds a requestEncoder: the   *)
(* second one is cleanStream's, made after cleanUp has set requestEncoder  *)
(* to nil.                                                                 *)
C16_AtMostOneLiveReset ==
  \A a \in 1..Len(upstreams) :
     upstreams[a].resets <= 2 /\ upstreams[a].liveResets <= 1

\* resetStream was invoked twice for the stream's upstreamRequest, the
\* second time without a requestEncoder
C16_Witness ==
  /\ stream.upstreamRequest # NoId
  /\ upstreams[stream.upstreamRequest].resets = 2
  /\ upstreams[stream.upstreamRequest].liveResets = 1
  /\ hist.cleanStreams = 1

(* C17: reset() applied to a stream that has been cleaned yields the zero  *)
(* value of the struct (every field is nil, zero or empty), so that a      *)
(* stream newActiveStream has just taken from the pool holds nothing but   *)
(* the five fields newActiveStream assigns.                                *)
C17_ResetZeroesEveryField ==
  /\ hist.cleanStreams > 0 => reset(stream) = ZeroStream
  /\ hist.last.ev = "newActiveStream" =>
        [stream EXCEPT !.streamId = NoId, !.proxy = NULL, !.requestInfo = Nil,
                       !.responseEncoder = NULL, !.logger = NULL] = ZeroStream

\* what reset() does establish: every field but downstreamReqHeaders and
\* logger is nil, zero or empty
C17_AllButTwoFields ==
  hist.cleanStreams > 0 =>
    [reset(stream) EXCEPT !.downstreamReqHeaders = NULL, !.logger = NULL]
      = ZeroStream

\* doRetry has just built a new upstreamRequest
Retried ==
  hist.last.ev = "doRetry" /\ ~hist.panicked /\ stream.upstreamRequest # NoId

\* the kinds of the events a retry is to re-encode, in order
RetryKinds ==
  <<"headers">>
    \o (IF stream.downstreamReqDataBuf # NULL THEN <<"data">> ELSE <<>>)
    \o (IF stream.downstreamReqTrailers # NULL THEN <<"trailers">> ELSE <<>>)

\* the events re-encoded to the new upstreamRequest are those of RetryKinds
RetryOrder(enc) ==
  /\ Len(enc) = Len(RetryKinds)
  /\ \A i \in 1..Len(enc) : enc[i].kind = RetryKinds[i]

(* C18: doRetry re-encodes headers, then the buffered body if any, then    *)
(* the trailers if any; the header encode has endStream = true iff there   *)
(* is neither body nor trailers, and exactly the last re-encoded event     *)
(* marks the end of the stream.                                            *)
C18_RetryReencode ==
  Retried =>
    /\ RetryOrder(upstreams[stream.upstreamRequest].encoded)
    /\ upstreams[stream.upstreamRequest].encoded[1].end
          <=> (stream.downstreamReqDataBuf = NULL
               /\ stream.downstreamReqTrailers = NULL)
    /\ \A i \in 1..Len(upstreams[stream.upstreamRequest].encoded) :
          upstreams[stream.upstreamRequest].encoded[i].end
            <=> i = Len(upstreams[stream.upstreamRequest].encoded)

\* C18 without the header's endStream: the order, and body and trailers
\* marking the end as claimed
C18_OrderOnly ==
  Retried =>
    /\ RetryOrder(upstreams[stream.upstreamRequest].encoded)
    /\ \A i \in 2..Len(upstreams[stream.upstreamRequest].encoded) :
          upstreams[stream.upstreamRequest].encoded[i].end
            <=> i = Len(upstreams[stream.upstreamRequest].encoded)

\* a doRetry step that built no upstreamRequest: pool acquisition failed
RetryFailed ==
  hist'.last.ev = "doRetry" /\ stream'.upstreamRequest = NoId

(* C19: when doRetry cannot acquire a pool the downstream receives exactly *)
(* one hijack reply, with NoHealthUpstreamCode; the timers and the retry   *)
(* state are cleaned up and no upstreamRequest is allocated.               *)
C19_RetryPoolFailure ==
  [][ RetryFailed =>
        /\ Len(codec'.log) = Len(codec.log) + 1
        /\ codec'.log[Len(codec'.log)].src = NoId
        /\ codec'.log[Len(codec'.log)].code = NoHealthUpstreamCode
        /\ Len(upstreams') = Len(upstreams)
        /\ timers'.reg = {}
        /\ stream'.perRetryTimer = NoId /\ stream'.responseTimer = NoId
        /\ stream'.retryState[1].retryTimer = NoId
        /\ ~hist'.panicked ]_vars

\* what does hold when doRetry cannot acquire a pool: one reply reaches the
\* downstream, sent by initializeUpstreamConnectionPool, and no
\* upstreamRequest is allocated; then cleanUp panics
C19_FirstReplyOnly ==
  [][ RetryFailed =>
        /\ Len(codec'.log) = Len(codec.log) + 1
        /\ codec'.log[Len(codec'.log)].src = NoId
        /\ codec'.log[Len(codec'.log)].code
              \in {RouterUnavailableCode, NoHealthUpstreamCode}
        /\ Len(upstreams') = Len(upstreams)
        /\ hist'.panicked ]_vars

\* OnDecodeHeaders found a route and has built no upstreamRequest: the pool
\* acquisition of the initial dispatch failed
DispatchFailed ==
  /\ hist.last.ev = "OnDecodeHeaders"
  /\ stream.route # NULL /\ stream.upstreamRequest = NoId

\* the flag and the single hijack reply of the failure: those of a missing
\* cluster snapshot (s.cluster was not set) or of a missing pool
FailureReply ==
  IF stream.cluster = NULL
  THEN /\ NoRouteFound \in stream.requestInfo[1].responseFlags
       /\ OneHijack(RouterUnavailableCode)
  ELSE /\ NoHealthyUpstream \in stream.requestInfo[1].responseFlags
       /\ OneHijack(NoHealthUpstreamCode)

(* C20: a pool acquisition failure of the initial dispatch ends the        *)
(* request with a single hijack - NoRouteFound and RouterUnavailableCode   *)
(* for a nil cluster snapshot, NoHealthyUpstream and NoHealthUpstreamCode  *)
(* for a nil pool - the stream is cleaned, and no timeout, retry state or  *)
(* upstreamRequest is built and nothing is encoded to an upstream.         *)
C20_InitialPoolFailure ==
  DispatchFailed =>
    /\ FailureReply /\ NothingBuilt
    /\ hist.cleanStreams = 1 /\ ~hist.panicked

\* C20 without the end of the request: the reply and what is not built
C20_ReplyOnly ==
  DispatchFailed => FailureReply /\ NothingBuilt

\* ---------------------------------------------------------------------
\* C21
\* ---------------------------------------------------------------------

\* the cleanStream calls made after the i-th endStream call began and
\* before the next one did
CleanStreamsSince(i) ==
  SubSeq(hist.cleanBy, hist.endStreams[i].cleanBy + 1,
         IF i < Len(hist.endStreams)
         THEN hist.endStreams[i + 1].cleanBy ELSE Len(hist.cleanBy))

\* the condition under which the claim has endStream call cleanStream itself
CleansDirectly(e) == ~e.encoder \/ (e.recvDone /\ e.localDone)

\* C21: endStream calls cleanStream itself if and only if the response
\* encoder is absent or both downstreamRecvDone and localProcessDone are
\* true, and then the downstream stream is not reset; otherwise it sets
\* localProcessDone, resets the downstream stream once with reason
\* StreamLocalReset and does not call cleanStream itself: the one
\* cleanStream call that follows is made by OnResetStream, and it finds
\* localProcessDone set.
C21_EndStreamCleansOrResets ==
  \A i \in 1..Len(hist.endStreams) :
    /\ hist.endStreams[i].direct <=> CleansDirectly(hist.endStreams[i])
    /\ hist.endStreams[i].direct =>
         /\ Len(CleanStreamsSince(i)) >= 1
         /\ CleanStreamsSince(i)[1].by = "endStream"
         /\ i = Len(hist.endStreams) =>
              codec.resets = hist.endStreams[i].resets
    /\ ~hist.endStreams[i].direct =>
         /\ codec.resets > hist.endStreams[i].resets
         /\ codec.resetReasons[hist.endStreams[i].resets + 1]
              = StreamLocalReset
         /\ i = Len(hist.endStreams) =>
              codec.resets = hist.endStreams[i].resets + 1
         /\ Len(CleanStreamsSince(i)) = 1
         /\ CleanStreamsSince(i)[1].by = "OnResetStream"
         /\ CleanStreamsSince(i)[1].localDone

\* An upstream response that ends before the downstream request does:
\* endStream found the encoder and localProcessDone but not
\* downstreamRecvDone, reset the downstream stream, and OnResetStream
\* cleaned the stream, once.
C21_Witness ==
  /\ Len(hist.endStreams) = 1
  /\ hist.endStreams[1].encoder /\ hist.endStreams[1].localDone
  /\ ~hist.endStreams[1].recvDone /\ ~hist.endStreams[1].direct
  /\ codec.resets = 1 /\ hist.cleanStreams = 1 /\ ~hist.panicked
  /\ Len(hist.cleanBy) = 1 /\ hist.cleanBy[1].by = "OnResetStream"

\* ---------------------------------------------------------------------
\* C22
\* ---------------------------------------------------------------------

\* C22: at every call of cleanUp both the stream's upstreamRequest and its
\* retryState are non-nil.
C22_CleanUpPointersNonNil ==
  \A call \in hist.cleanUpCalls : call.upstreamRequest /\ call.retryState

\* The part of C22 that holds: a cleanUp call that finds an upstreamRequest
\* finds a retryState too.
C22_RetryStateWithRequest ==
  \A call \in hist.cleanUpCalls : call.upstreamRequest => call.retryState

\* ---------------------------------------------------------------------
\* C23
\* ---------------------------------------------------------------------

\* C23: over a stream's lifetime localProcessDone is monotonic: no
\* encodeHeaders or encodeData call with endStream = false finds it true
\* and sets it back to false, and apart from the step in which the struct
\* is handed out for a new stream, no handler that finds it true leaves it
\* false.
C23_LocalProcessDoneMonotonic ==
  [][ /\ ~hist'.doneCleared
      /\ (stream.localProcessDone /\ hist'.last.ev # "newActiveStream")
           => stream'.localProcessDone ]_vars

\* Request data arrives after the stream replied locally: the handler found
\* localProcessDone set and left it set.
C23_Witness ==
  /\ hist.last.ev \in {"OnDecodeData", "OnDecodeTrailers"}
  /\ hist.last.done /\ stream.localProcessDone
  /\ Len(codec.log) > 0 /\ ~hist.doneCleared

====
